---- MODULE Spec2Model ----
(***************************************************************************)
(* A model of kkkunny/logs: the stack-capturing error type (error.go) and  *)
(* the leveled logger with ordered ambient fields (the mature logger       *)
(* file, src/unnamed/part_001).                                            *)
(*                                                                         *)
(* A goroutine's call stack is a sequence of frames, oldest call first.    *)
(* `callers` holds the user frames that are suspended at a call; the       *)
(* innermost user function is the one executing, and the line it executes  *)
(* is an input of every operation it performs.  Errors live in `heap` and  *)
(* are named by their index, so that "the very same instance" is equality  *)
(* of indices; 0 is nil.                                                   *)
(***************************************************************************)
EXTENDS Integers, Sequences, FiniteSets, TLC

VARIABLES base, callers, heap, held, ret, panicked, loggers, maps, sink, probe

vars == <<base, callers, heap, held, ret, panicked, loggers, maps, sink, probe>>

stackVars == <<base, callers>>
errVars == <<heap, held, ret>>
logVars == <<loggers, maps, sink, probe>>

(***************************************************************************)
(* Bounds of the model.                                                    *)
(***************************************************************************)
MaxCalls == 1
MaxHeap == 3
MaxLoggers == 2
MaxSink == 1
MaxSkip == 2

(***************************************************************************)
(* Program constants.                                                      *)
(***************************************************************************)
PcsCap == 20

Nil == 0

Min(a, b) == IF a < b THEN a ELSE b

Reverse(s) == [i \in 1..Len(s) |-> s[Len(s) - i + 1]]

Last(s) == s[Len(s)]

(***************************************************************************)
(* Frames and call stacks.                                                 *)
(***************************************************************************)
Frame(file, line) == [File |-> file, Line |-> line]

\* The source file of the user function running at depth i of the stack.
UserFile(i) == "file" \o ToString(i) \o ".go"

GoexitFrame == Frame("runtime/asm.s", 0)

CallersFrame == Frame("runtime/extern.go", 0)

\* The placeholder runtime.Caller yields when the stack is not deep enough.
NoFrame == Frame("", 0)

\* The whole stack of the running goroutine, innermost frame first, while
\* its innermost user function executes line l.
GoStack(l) ==
    <<Frame(UserFile(Len(callers) + 1), l)>> \o Reverse(callers) \o <<GoexitFrame>>

\* The stack of a goroutine whose entry function is the callee itself.
EntryStack == <<GoexitFrame>>

\* runtime.Callers(skip, pcs) called with stack stk (innermost first, the
\* frame of runtime.Callers itself not included): skip 0 names Callers.
RuntimeCallers(skip, cap, stk) ==
    LET full == <<CallersFrame>> \o stk
    IN  SubSeq(full, skip + 1, Min(Len(full), skip + cap))

\* runtime.Caller(skip) called with stack stk (innermost first): skip 0
\* names the function that called runtime.Caller.
RuntimeCaller(skip, stk) ==
    IF skip + 1 <= Len(stk) THEN stk[skip + 1] ELSE NoFrame

(***************************************************************************)
(* Errors.                                                                 *)
(***************************************************************************)
RawError(msg) == [kind |-> "raw", msg |-> msg, err |-> Nil, stacks |-> <<>>]

\* fmt.Errorf("...: %w", inner): an error of another type that unwraps.
WrapperError(msg, inner) == [kind |-> "wrap", msg |-> msg, err |-> inner, stacks |-> <<>>]

LogError(stacks, err) == [kind |-> "log", msg |-> "", err |-> err, stacks |-> stacks]

\* A type assertion on err itself, which never looks down the Unwrap chain.
ErrorsAs_TypeAssert(h, e) ==
    IF e # Nil /\ h[e].kind = "log" THEN e ELSE Nil

\* errors.As(err, &logErr) with logErr of the interface type Error: the
\* first error of the Unwrap chain that is an Error, or Nil.
RECURSIVE ErrorsAs(_, _)
ErrorsAs(h, e) ==
    IF e = Nil THEN Nil
    ELSE IF h[e].kind = "log" THEN e
    ELSE IF h[e].kind = "wrap" THEN ErrorsAs(h, h[e].err)
    ELSE Nil

\* err.Error(): logError delegates to the error it wraps.
RECURSIVE ErrorMsg(_, _)
ErrorMsg(h, e) ==
    IF h[e].kind = "log" THEN ErrorMsg(h, h[e].err)
    ELSE IF h[e].kind = "wrap" THEN h[e].msg \o ": " \o ErrorMsg(h, h[e].err)
    ELSE h[e].msg

Unwrap(h, e) == h[e].err

Stacks(h, e) == h[e].stacks

\* logError.Stack indexes the last element; an empty slice makes it panic.
StackPanics(h, e) == Len(h[e].stacks) = 0

Stack(h, e) == h[e].stacks[Len(h[e].stacks)]

\* newLogError(skip, err) called with stack stk, whose innermost frame is
\* the caller of newLogError.  The result is [panic, obj].
NewLogErrorSkip(skip) == skip + 2

NewLogErrorKeep(n) == n - 1

NewLogErrorOrder(frames) == Reverse(frames)

newLogError(skip, err, stk) ==
    LET pcs    == RuntimeCallers(NewLogErrorSkip(skip), PcsCap, <<Frame("error.go", 26)>> \o stk)
        n      == Len(pcs)
        frames == SubSeq(pcs, 1, NewLogErrorKeep(n))
    IN  IF NewLogErrorKeep(n) < 0
        THEN [panic |-> TRUE, obj |-> LogError(<<>>, err)]
        ELSE [panic |-> FALSE, obj |-> LogError(NewLogErrorOrder(frames), err)]

\* A wrap that never asks whether err is an Error already.
ErrorWrapFound_NoAs(h, err) == Nil

\* The Error ErrorWrap finds in err, or Nil.
ErrorWrapFound(h, err) == ErrorsAs(h, err)

\* ErrorWrap(err) called with stack stk (innermost frame: the caller).
\* The result is [panic, heap, err]: the heap afterwards and the Error
\* returned.
ErrorWrap(h, err, stk) ==
    IF err = Nil THEN [panic |-> FALSE, heap |-> h, err |-> Nil]
    ELSE IF ErrorWrapFound(h, err) # Nil
    THEN [panic |-> FALSE, heap |-> h, err |-> ErrorWrapFound(h, err)]
    ELSE LET r == newLogError(1, err, <<Frame("error.go", 55)>> \o stk)
         IN  IF r.panic THEN [panic |-> TRUE, heap |-> h, err |-> Nil]
             ELSE [panic |-> FALSE, heap |-> Append(h, r.obj), err |-> Len(h) + 1]

\* ErrorWith(v, err): the same, with the companion value handed through.
ErrorWith(h, v, err, stk) ==
    IF err = Nil THEN [panic |-> FALSE, heap |-> h, val |-> v, err |-> Nil]
    ELSE IF ErrorsAs(h, err) # Nil
    THEN [panic |-> FALSE, heap |-> h, val |-> v, err |-> ErrorsAs(h, err)]
    ELSE LET r == newLogError(1, err, <<Frame("error.go", 67)>> \o stk)
         IN  IF r.panic THEN [panic |-> TRUE, heap |-> h, val |-> v, err |-> Nil]
             ELSE [panic |-> FALSE, heap |-> Append(h, r.obj), val |-> v, err |-> Len(h) + 1]

\* Errorf(f, a...): a fresh fmt.Errorf error, wrapped on the spot.
Errorf(h, msg, stk) ==
    LET h1 == Append(h, RawError(msg))
        r  == newLogError(1, Len(h1), <<Frame("error.go", 72)>> \o stk)
    IN  IF r.panic THEN [panic |-> TRUE, heap |-> h1, err |-> Nil]
        ELSE [panic |-> FALSE, heap |-> Append(h1, r.obj), err |-> Len(h1) + 1]

(***************************************************************************)
(* The logger.                                                             *)
(***************************************************************************)
LogLevelDebug == 0
LogLevelTrace == 1
LogLevelInfo == 2
LogLevelWarn == 3
LogLevelError == 4

Levels == LogLevelDebug..LogLevelError

logLevelStringMap ==
    [lv \in Levels |->
        CASE lv = LogLevelDebug -> " DEBUG "
          [] lv = LogLevelTrace -> " TRACE "
          [] lv = LogLevelInfo  -> " INFO  "
          [] lv = LogLevelWarn  -> " WARN  "
          [] lv = LogLevelError -> " ERROR "]

\* The io.Writer values a program hands to NewLogger: a buffer and the
\* process's standard output.
Writers == {"buf", "os.Stdout"}

\* A Go value of type any: an int or a string.
GoInt(n) == [t |-> "int", n |-> n, s |-> ""]

GoStr(str) == [t |-> "string", n |-> 0, s |-> str]

\* fmt.Sprintf("%v", v)
SprintfV(v) == IF v.t = "int" THEN ToString(v.n) ELSE v.s

\* The text of a string that a builder or a map holds is the sequence of
\* its lines, the pieces between its newline characters: a text with n
\* newlines has n + 1 lines.  Str is a text without a newline, Newline the
\* text "\n", and Concat(a, b) the text a followed by b.
Str(str) == <<str>>

Newline == <<"", "">>

Concat(a, b) == SubSeq(a, 1, Len(a) - 1) \o <<a[Len(a)] \o b[1]>> \o SubSeq(b, 2, Len(b))

\* fmt.Sprintf("%s:%d", file, line)
SprintfPos(frame) == frame.File \o ":" \o ToString(frame.Line)

\* LinkedHashMap.Set: an ordered map is the sequence of its <<key, value>>
\* entries; a key already present keeps its place and takes the new value.
LinkedHashMapSet(m, k, v) ==
    IF \E i \in DOMAIN m : m[i][1] = k
    THEN [i \in DOMAIN m |-> IF m[i][1] = k THEN <<k, v>> ELSE m[i]]
    ELSE Append(m, <<k, v>>)

\* The loop of NewLogger and NewGroup over values: every value at an odd
\* index is set under the key before it, which must be a string.
RECURSIVE SetPairs(_, _, _)
SetPairs(m, values, i) ==
    IF i > Len(values) THEN m
    ELSE IF i % 2 = 0
    THEN SetPairs(LinkedHashMapSet(m, values[i - 1].s, Str(SprintfV(values[i]))), values, i + 1)
    ELSE SetPairs(m, values, i + 1)

\* values[i-1].(string) panics on a key that is not a string.
KeysAreStrings(values) ==
    \A i \in DOMAIN values : i % 2 = 0 => values[i - 1].t = "string"

\* The loop of NewGroup over the parent's entries.
RECURSIVE CopyEntries(_, _, _)
CopyEntries(m, src, i) ==
    IF i > Len(src) THEN m
    ELSE CopyEntries(LinkedHashMapSet(m, src[i][1], src[i][2]), src, i + 1)

\* A Logger holds a pointer to its field map: values is the index of the
\* map in the store of maps ms.
Logger(level, values, writer) == [level |-> level, values |-> values, writer |-> writer]

NoLogger == Logger(LogLevelDebug, 0, "")

\* NewLogger(level, writer, values...): [panic, maps, logger].
NewLogger(ms, level, writer, values) ==
    IF Len(values) % 2 # 0 THEN [panic |-> TRUE, maps |-> ms, logger |-> NoLogger]
    ELSE IF ~KeysAreStrings(values)
    THEN [panic |-> TRUE, maps |-> Append(ms, <<>>), logger |-> NoLogger]
    ELSE [panic |-> FALSE,
          maps |-> Append(ms, SetPairs(<<>>, values, 1)),
          logger |-> Logger(level, Len(ms) + 1, writer)]

\* A fork that sets the new pairs in the parent's own map.
NewGroup_Alias(ms, self, values) ==
    IF Len(values) % 2 # 0 THEN [panic |-> TRUE, maps |-> ms, logger |-> NoLogger]
    ELSE IF ~KeysAreStrings(values) THEN [panic |-> TRUE, maps |-> ms, logger |-> NoLogger]
    ELSE [panic |-> FALSE,
          maps |-> [ms EXCEPT ![self.values] = SetPairs(@, values, 1)],
          logger |-> Logger(self.level, self.values, self.writer)]

\* A fork that sets the new pairs first and the parent's entries after.
NewGroup_PairsFirst(ms, self, values) ==
    IF Len(values) % 2 # 0 THEN [panic |-> TRUE, maps |-> ms, logger |-> NoLogger]
    ELSE IF ~KeysAreStrings(values) THEN [panic |-> TRUE, maps |-> ms, logger |-> NoLogger]
    ELSE [panic |-> FALSE,
          maps |-> Append(ms, CopyEntries(SetPairs(<<>>, values, 1), ms[self.values], 1)),
          logger |-> Logger(self.level, Len(ms) + 1, self.writer)]

\* self.NewGroup(values...): [panic, maps, logger].  The type assertion on
\* a key fails after the new map has been made and filled from the parent.
NewGroup(ms, self, values) ==
    IF Len(values) % 2 # 0 THEN [panic |-> TRUE, maps |-> ms, logger |-> NoLogger]
    ELSE IF ~KeysAreStrings(values)
    THEN [panic |-> TRUE, maps |-> Append(ms, CopyEntries(<<>>, ms[self.values], 1)),
          logger |-> NoLogger]
    ELSE [panic |-> FALSE,
          maps |-> Append(ms, SetPairs(CopyEntries(<<>>, ms[self.values], 1), values, 1)),
          logger |-> Logger(self.level, Len(ms) + 1, self.writer)]

\* The two buffers output fills: "[k]v | [k]v" for the logger's own fields
\* and "k=v k=v" for the fields of the call.
RECURSIVE GlobalValueBuf(_, _)
GlobalValueBuf(m, i) ==
    IF i > Len(m) THEN Str("")
    ELSE Concat(Concat(Str("[" \o m[i][1] \o "]"), m[i][2]),
                Concat(Str(IF i < Len(m) THEN " | " ELSE ""), GlobalValueBuf(m, i + 1)))

RECURSIVE ValueBuf(_, _)
ValueBuf(m, i) ==
    IF i > Len(m) THEN Str("")
    ELSE Concat(Concat(Str(m[i][1] \o "="), m[i][2]),
                Concat(Str(IF i < Len(m) THEN " " ELSE ""), ValueBuf(m, i + 1)))

\* time.Now().Format("2006-01-02 15:04:05"): the clock is not modelled.
TimeStr == "TIME"

\* self.output(level, pos, values), self.values being the entries of the
\* logger's map: the text handed to the writer in one Output call, as the
\* segments that both layouts join with " | ".  On os.Stdout and os.Stderr
\* the text is styled, which the flag styled tells.
output(self, level, pos, values) ==
    [badge |-> logLevelStringMap[level],
     time |-> TimeStr,
     pos |-> pos,
     global |-> GlobalValueBuf(self.values, 1),
     local |-> ValueBuf(values, 1),
     styled |-> self.writer \in {"os.Stdout", "os.Stderr"}]

\* The outcome of a logging call: whether it panicked, the texts it wrote,
\* how many values, messages and format strings it formatted before the
\* end of the call (panic included), and how many times it asked the
\* runtime for a call site.
Outcome(panic, out, nfmt, ncaller) ==
    [panic |-> panic, out |-> out, nfmt |-> nfmt, ncaller |-> ncaller]

\* self.outputByStack(level, skip, values), stk being the stack innermost
\* first with the caller of outputByStack as its first frame.
OutputByStackSkip(skip) == skip + 1

outputByStack(self, level, skip, values, stk) ==
    LET frame == RuntimeCaller(OutputByStackSkip(skip), <<Frame("logs.go", 166)>> \o stk)
    IN  Outcome(FALSE, <<output(self, level, SprintfPos(frame), values)>>, 1, 1)

\* self.checkItems(a...): [panic, items, nfmt].
RECURSIVE CheckItemsLoop(_, _, _)
CheckItemsLoop(m, a, i) ==
    IF i > Len(a) THEN m
    ELSE IF i % 2 = 0
    THEN CheckItemsLoop(LinkedHashMapSet(m, SprintfV(a[i - 1]), Str(SprintfV(a[i]))), a, i + 1)
    ELSE CheckItemsLoop(m, a, i + 1)

checkItems(a) ==
    IF Len(a) % 2 # 0 THEN [panic |-> TRUE, items |-> <<>>, nfmt |-> 0]
    ELSE [panic |-> FALSE, items |-> CheckItemsLoop(<<>>, a, 1), nfmt |-> Len(a)]

\* A threshold test that also suppresses the level equal to the threshold.
PrintSuppressed_AtOrBelow(self, level) == self.level >= level

\* The threshold test of print.
PrintSuppressed(self, level) == self.level > level

\* A print that looks at the threshold before it looks at its items.
print_LevelFirst(self, level, skip, a, stk) ==
    IF self.level > level THEN Outcome(FALSE, <<>>, 0, 0)
    ELSE LET c == checkItems(a)
         IN  IF c.panic THEN Outcome(TRUE, <<>>, 0, 0)
             ELSE LET r == outputByStack(self, level, skip + 1, c.items,
                                         <<Frame("logs.go", 191)>> \o stk)
                  IN  Outcome(r.panic, r.out, c.nfmt + r.nfmt, r.ncaller)

\* self.print(level, skip, a...)
print(self, level, skip, a, stk) ==
    LET c == checkItems(a)
    IN  IF c.panic THEN Outcome(TRUE, <<>>, 0, 0)
        ELSE IF PrintSuppressed(self, level) THEN Outcome(FALSE, <<>>, c.nfmt, 0)
        ELSE LET r == outputByStack(self, level, skip + 1, c.items,
                                    <<Frame("logs.go", 191)>> \o stk)
             IN  Outcome(r.panic, r.out, c.nfmt + r.nfmt, r.ncaller)

\* A printf that forwards its skip as it got it.
PrintfSkip_Same(skip) == skip

\* self.printf(level, skip, f, a...) with f = "%v" and one argument.
PrintfSkip(skip) == skip + 1

printf(self, level, skip, v, stk) ==
    LET r == print(self, level, PrintfSkip(skip), <<GoStr("msg"), GoStr(SprintfV(v))>>,
                   <<Frame("logs.go", 196)>> \o stk)
    IN  Outcome(r.panic, r.out, r.nfmt + 1, r.ncaller)

\* The "stack" field of printLogError: a newline, then "\tfile:line" for
\* every frame, newline-separated.
RECURSIVE StackBuffer(_, _)
StackBuffer(stacks, i) ==
    IF i > Len(stacks) THEN Str("")
    ELSE Concat(Str("\t" \o SprintfPos(stacks[i])),
                Concat(IF i < Len(stacks) THEN Newline ELSE Str(""),
                       StackBuffer(stacks, i + 1)))

\* A printLogError that takes the first captured frame for the position.
printLogError_FirstFrame(self, h, level, err) ==
    IF self.level > level THEN Outcome(FALSE, <<>>, 0, 0)
    ELSE LET stacks == Stacks(h, err)
             values == LinkedHashMapSet(
                           LinkedHashMapSet(<<>>, "error", Str(ErrorMsg(h, err))),
                           "stack", Concat(Newline, StackBuffer(stacks, 1)))
         IN  IF Len(stacks) = 0 THEN Outcome(TRUE, <<>>, Len(stacks) + 1, 0)
             ELSE Outcome(FALSE, <<output(self, level, SprintfPos(stacks[1]), values)>>,
                          Len(stacks) + 2, 0)

\* self.printLogError(level, err), err being an Error of heap h.
printLogError(self, h, level, err) ==
    IF self.level > level THEN Outcome(FALSE, <<>>, 0, 0)
    ELSE LET stacks == Stacks(h, err)
             values == LinkedHashMapSet(
                           LinkedHashMapSet(<<>>, "error", Str(ErrorMsg(h, err))),
                           "stack", Concat(Newline, StackBuffer(stacks, 1)))
         IN  IF Len(stacks) = 0 THEN Outcome(TRUE, <<>>, Len(stacks) + 1, 0)
             ELSE Outcome(FALSE,
                          <<output(self, level, SprintfPos(stacks[Len(stacks)]), values)>>,
                          Len(stacks) + 2, 0)

\* self.printError(level, skip, err): a nil err is dereferenced by
\* err.Error().
PrintErrorSkip(skip) == skip + 1

printError(self, h, level, skip, err, stk) ==
    IF ErrorsAs(h, err) # Nil THEN printLogError(self, h, level, ErrorsAs(h, err))
    ELSE IF err = Nil THEN Outcome(TRUE, <<>>, 0, 0)
    ELSE LET r == print(self, level, PrintErrorSkip(skip),
                        <<GoStr("error"), GoStr(ErrorMsg(h, err))>>,
                        <<Frame("logs.go", 205)>> \o stk)
         IN  Outcome(r.panic, r.out, r.nfmt + 1, r.ncaller)

\* The line of the call each public method makes, by form and level:
\* Debug 235, Debugf 240, DebugError 245, Trace 250 and so on.
MethodLine(form, level) ==
    235 + 15 * level + (IF form = "Level" THEN 0 ELSE IF form = "Levelf" THEN 5 ELSE 10)

\* Debug, Trace, Info, Warn, Error (skip, a...)
LevelSkip(skip) == skip + 1

LevelMethod(self, level, skip, a, stk) ==
    print(self, level, LevelSkip(skip), a, <<Frame("logs.go", MethodLine("Level", level))>> \o stk)

\* Debugf, Tracef, Infof, Warnf, Errorf (skip, "%v", v)
LevelfMethod(self, level, skip, v, stk) ==
    printf(self, level, skip + 1, v, <<Frame("logs.go", MethodLine("Levelf", level))>> \o stk)

\* DebugError, TraceError, InfoError, WarnError, ErrorError (skip, err)
LevelErrorMethod(self, h, level, skip, err, stk) ==
    printError(self, h, level, skip + 1, err,
               <<Frame("logs.go", MethodLine("LevelError", level))>> \o stk)

(***************************************************************************)
(* Inputs.                                                                 *)
(***************************************************************************)
Lines == {10, 20}

\* The line of a call that leads to an error operation.
CallLines == {10}

Msgs == {"boom"}

Vals == {7}

\* How deep the goroutine's stack is when the modelled code starts: shallow,
\* and such that the next call makes the stack overflow the capture buffer.
BaseDepths == {1, PcsCap - 2}

BaseStack(b) == [i \in 1..b |-> Frame(UserFile(i), 1)]

\* The user frame of the function executing line l.
Site(l) == Frame(UserFile(Len(callers) + 1), l)

NoRet == [op |-> "none", arg |-> Nil, out |-> 0, err |-> Nil]

(***************************************************************************)
(* The call stack of the running goroutine.                                *)
(***************************************************************************)
Call(l) ==
    /\ ~panicked
    /\ Len(callers) < base + MaxCalls
    /\ callers' = Append(callers, Site(l))
    /\ UNCHANGED <<base, panicked>>
    /\ UNCHANGED errVars
    /\ UNCHANGED logVars

Return ==
    /\ ~panicked
    /\ Len(callers) > base
    /\ callers' = SubSeq(callers, 1, Len(callers) - 1)
    /\ UNCHANGED <<base, panicked>>
    /\ UNCHANGED errVars
    /\ UNCHANGED logVars

(***************************************************************************)
(* The error operations, called by the innermost user function at line l.  *)
(***************************************************************************)
\* What the caller holds after a wrap: the argument it passed and the
\* values returned.
Observed(op, e, r) ==
    [op |-> op, arg |-> e, out |-> IF op = "ErrorWith" THEN r.val ELSE 0, err |-> r.err]

ErrorWrapCall(e, l) ==
    /\ ~panicked
    /\ e \in held \cup {Nil}
    /\ Len(heap) <= MaxHeap
    /\ LET r == ErrorWrap(heap, e, GoStack(l))
       IN  /\ heap' = r.heap
           /\ held' = held \cup ({r.err} \ {Nil})
           /\ ret' = Observed("ErrorWrap", e, r)
           /\ panicked' = r.panic
    /\ UNCHANGED stackVars
    /\ UNCHANGED logVars

ErrorWithCall(v, e, l) ==
    /\ ~panicked
    /\ e \in held \cup {Nil}
    /\ Len(heap) <= MaxHeap
    /\ LET r == ErrorWith(heap, v, e, GoStack(l))
       IN  /\ heap' = r.heap
           /\ held' = held \cup ({r.err} \ {Nil})
           /\ ret' = Observed("ErrorWith", e, r)
           /\ panicked' = r.panic
    /\ UNCHANGED stackVars
    /\ UNCHANGED logVars

ErrorfCall(msg, l) ==
    /\ ~panicked
    /\ LET r == Errorf(heap, msg, GoStack(l))
       IN  /\ Len(r.heap) <= MaxHeap
           /\ heap' = r.heap
           /\ held' = held \cup ({r.err} \ {Nil})
           /\ ret' = Observed("Errorf", Nil, r)
           /\ panicked' = r.panic
    /\ UNCHANGED stackVars
    /\ UNCHANGED logVars

\* go ErrorWrap(e): the wrap function is the entry of a new goroutine, so
\* goexit is the only frame above it; a go statement discards the results.
GoErrorWrap(e) ==
    /\ ~panicked
    /\ e \in held
    /\ LET r == ErrorWrap(heap, e, EntryStack)
       IN  /\ Len(r.heap) <= MaxHeap
           /\ heap' = r.heap
           /\ panicked' = r.panic
    /\ UNCHANGED <<held, ret>>
    /\ UNCHANGED stackVars
    /\ UNCHANGED logVars

\* The caller wraps an error it holds in an error of another type
\* (fmt.Errorf with %w), as code between the failure and the log does.
FmtErrorfW(e) ==
    /\ ~panicked
    /\ e \in held
    /\ Len(heap) < MaxHeap
    /\ heap' = Append(heap, WrapperError("ctx", e))
    /\ held' = held \cup {Len(heap) + 1}
    /\ UNCHANGED <<ret, panicked>>
    /\ UNCHANGED stackVars
    /\ UNCHANGED logVars

(***************************************************************************)
(* The logger operations, called by the innermost user function at line l. *)
(* fresh tells whether the caller empties the buffer behind the logger's   *)
(* writer right before the call (bytes.Buffer.Reset).                      *)
(***************************************************************************)
NoProbe == [form |-> "none", lg |-> 0, level |-> LogLevelDebug, skip |-> 0, line |-> 0,
            nfmt |-> 0, ncaller |-> 0, wrote |-> 0]

Probe(form, lg, level, skip, l, r) ==
    [form |-> form, lg |-> lg, level |-> level, skip |-> skip, line |-> l,
     nfmt |-> r.nfmt, ncaller |-> r.ncaller, wrote |-> Len(r.out)]

\* log.Logger.Output hands the text to the writer in one Write.
Written(w, fresh, out) ==
    [sink EXCEPT ![w] = (IF fresh THEN <<>> ELSE @) \o out]

Emit(lg, fresh, r) ==
    /\ Len(Written(loggers[lg].writer, fresh, r.out)[loggers[lg].writer]) <= MaxSink
    /\ sink' = Written(loggers[lg].writer, fresh, r.out)
    /\ panicked' = r.panic

NewLoggerCall(level, w, values) ==
    /\ ~panicked
    /\ Len(loggers) < MaxLoggers
    /\ LET r == NewLogger(maps, level, w, values)
       IN  /\ loggers' = IF r.panic THEN loggers ELSE Append(loggers, r.logger)
           /\ maps' = r.maps
           /\ panicked' = r.panic
           /\ probe' = [NoProbe EXCEPT !.form = "NewLogger", !.level = level]
    /\ UNCHANGED sink
    /\ UNCHANGED stackVars
    /\ UNCHANGED errVars

NewGroupCall(lg, values) ==
    /\ ~panicked
    /\ lg \in DOMAIN loggers
    /\ Len(loggers) < MaxLoggers
    /\ LET r == NewGroup(maps, loggers[lg], values)
       IN  /\ loggers' = IF r.panic THEN loggers ELSE Append(loggers, r.logger)
           /\ maps' = r.maps
           /\ panicked' = r.panic
           /\ probe' = [NoProbe EXCEPT !.form = "NewGroup", !.lg = lg]
    /\ UNCHANGED sink
    /\ UNCHANGED stackVars
    /\ UNCHANGED errVars

\* The logger lg as its methods see it: self.values dereferenced.
Self(lg) == [loggers[lg] EXCEPT !.values = maps[@]]

LevelCall(lg, level, skip, a, l, fresh) ==
    /\ ~panicked
    /\ lg \in DOMAIN loggers
    /\ LET r == LevelMethod(Self(lg), level, skip, a, GoStack(l))
       IN  /\ Emit(lg, fresh, r)
           /\ probe' = Probe("Level", lg, level, skip, l, r)
    /\ UNCHANGED <<loggers, maps>>
    /\ UNCHANGED stackVars
    /\ UNCHANGED errVars

LevelfCall(lg, level, skip, v, l, fresh) ==
    /\ ~panicked
    /\ lg \in DOMAIN loggers
    /\ LET r == LevelfMethod(Self(lg), level, skip, v, GoStack(l))
       IN  /\ Emit(lg, fresh, r)
           /\ probe' = Probe("Levelf", lg, level, skip, l, r)
    /\ UNCHANGED <<loggers, maps>>
    /\ UNCHANGED stackVars
    /\ UNCHANGED errVars

LevelErrorCall(lg, level, skip, e, l, fresh) ==
    /\ ~panicked
    /\ lg \in DOMAIN loggers
    /\ e \in held \cup {Nil}
    /\ LET r == LevelErrorMethod(Self(lg), heap, level, skip, e, GoStack(l))
       IN  /\ Emit(lg, fresh, r)
           /\ probe' = Probe("LevelError", lg, level, skip, l, r)
    /\ UNCHANGED <<loggers, maps>>
    /\ UNCHANGED stackVars
    /\ UNCHANGED errVars

NoSink == [w \in Writers |-> <<>>]

\* The key/value lists callers pass: well-formed ones, ones of odd length,
\* and one whose key is not a string.
EvenArgs ==
    { <<>>,
      <<GoStr("a"), GoInt(1), GoStr("b"), GoInt(2)>>,
      <<GoStr("a"), GoInt(3)>> }

OddArgs == { <<GoStr("a")>>, <<GoStr("a"), GoInt(1), GoStr("b")>> }

BadKeyArgs == { <<GoInt(1), GoStr("x")>> }

ArgLists == EvenArgs \cup OddArgs \cup BadKeyArgs

\* The state of a program that has constructed nothing yet; its goroutine
\* runs the function of file2.go, called from file1.go.
Init ==
    /\ base = 1
    /\ callers = BaseStack(base)
    /\ heap = <<RawError("boom")>>
    /\ held = {1}
    /\ ret = NoRet
    /\ panicked = FALSE
    /\ loggers = <<>>
    /\ maps = <<>>
    /\ sink = NoSink
    /\ probe = NoProbe

(***************************************************************************)
(* Construction and forking of loggers, with logging calls in between.     *)
(***************************************************************************)
\* The program constructs one root logger and forks it; between the forks
\* it logs, with well-formed and with odd-length lists.
NextFork ==
    \/ \E level \in Levels, w \in Writers, a \in ArgLists :
          loggers = <<>> /\ NewLoggerCall(level, w, a)
    \/ \E lg \in 1..MaxLoggers, a \in ArgLists : NewGroupCall(lg, a)
    \/ \E lg \in 1..MaxLoggers, level \in Levels, a \in {<<>>} \cup OddArgs :
          LevelCall(lg, level, 0, a, 10, TRUE)

SpecFork == Init /\ [][NextFork]_vars

(***************************************************************************)
(* Emission: a root logger on a buffer, its forks, and logging calls of    *)
(* every level and form on them, the buffer keeping what it receives.      *)
(***************************************************************************)
Next ==
    \/ \E level \in Levels : loggers = <<>> /\ NewLoggerCall(level, "buf", <<>>)
    \/ \E lg \in 1..MaxLoggers : NewGroupCall(lg, <<>>)
    \/ Len(heap) = 1 /\ ErrorWrapCall(1, 10)
    \/ \E lg \in 1..MaxLoggers, level \in Levels :
          LevelCall(lg, level, 0, <<GoStr("k"), GoInt(1)>>, 10, FALSE)
    \/ \E lg \in 1..MaxLoggers, level \in Levels :
          LevelfCall(lg, level, 0, GoInt(1), 10, FALSE)
    \/ \E lg \in 1..MaxLoggers, level \in Levels, e \in 1..MaxHeap :
          LevelErrorCall(lg, level, 0, e, 10, FALSE)

Spec == Init /\ [][Next]_vars

(***************************************************************************)
(* Positions: one logger that lets every level through, called with every  *)
(* skip from every depth of the stack.                                     *)
(***************************************************************************)
\* skip is a uint.  A uint is modelled by the integer it converts to as an
\* int: the same number for the small ones, and -1 for the largest one,
\* which one more makes 0.
UintMax == -1

Skips == 0..MaxSkip \cup {UintMax}

NextSkip ==
    \/ loggers = <<>> /\ NewLoggerCall(LogLevelDebug, "buf", <<>>)
    \/ \E l \in Lines : Call(l)
    \/ Return
    \/ \E level \in Levels, k \in Skips, l \in Lines :
          LevelCall(1, level, k, <<GoStr("k"), GoInt(1)>>, l, TRUE)
    \/ \E level \in Levels, k \in Skips, l \in Lines :
          LevelfCall(1, level, k, GoInt(1), l, TRUE)
    \/ \E level \in Levels, k \in Skips, l \in Lines :
          LevelErrorCall(1, level, k, 1, l, TRUE)

SpecSkip == Init /\ [][NextSkip]_vars

(***************************************************************************)
(* Errors on their way to the log: wrapped in one function, handed up and  *)
(* wrapped in other errors, logged elsewhere.                              *)
(***************************************************************************)
NextTrace ==
    \/ loggers = <<>> /\ NewLoggerCall(LogLevelInfo, "buf", <<>>)
    \/ \E l \in CallLines : Call(l)
    \/ Return
    \/ \E l \in Lines : Len(heap) < MaxHeap /\ ErrorWrapCall(1, l)
    \/ \E e \in 1..MaxHeap : FmtErrorfW(e)
    \/ \E level \in {LogLevelDebug, LogLevelError}, e \in 1..MaxHeap, l \in Lines :
          LevelErrorCall(1, level, 0, e, l, TRUE)

SpecTrace == Init /\ [][NextTrace]_vars

InitErr ==
    /\ base \in BaseDepths
    /\ callers = BaseStack(base)
    /\ heap = <<RawError("boom")>>
    /\ held = {1}
    /\ ret = NoRet
    /\ panicked = FALSE
    /\ loggers = <<>>
    /\ maps = <<>>
    /\ sink = NoSink
    /\ probe = NoProbe

NextErr ==
    \/ \E l \in CallLines : Call(l)
    \/ Return
    \/ \E e \in 0..MaxHeap, l \in Lines : ErrorWrapCall(e, l)
    \/ \E v \in Vals, e \in 0..MaxHeap, l \in Lines : ErrorWithCall(v, e, l)
    \/ \E m \in Msgs, l \in Lines : ErrorfCall(m, l)
    \/ \E e \in 0..MaxHeap : GoErrorWrap(e)
    \/ \E e \in 0..MaxHeap : FmtErrorfW(e)

SpecErr == InitErr /\ [][NextErr]_vars

(***************************************************************************)
(* Properties of the error type.                                           *)
(***************************************************************************)
IsError(h, e) == e # Nil /\ h[e].kind = "log"

\* The Unwrap chain of e, e first.
RECURSIVE Chain(_, _)
Chain(h, e) ==
    IF e = Nil THEN <<>> ELSE <<e>> \o Chain(h, h[e].err)

\* The Unwrap chain of e down to its first Error, which it excludes.
RECURSIVE OuterChain(_, _)
OuterChain(h, e) ==
    IF e = Nil \/ h[e].kind = "log" THEN <<>> ELSE <<e>> \o OuterChain(h, h[e].err)

Range(s) == {s[i] : i \in DOMAIN s}

\* The first Error of the Unwrap chain of e, or Nil.
FirstError(h, e) ==
    LET c  == Chain(h, e)
        at == {i \in DOMAIN c : h[c[i]].kind = "log"}
    IN  IF at = {} THEN Nil ELSE c[CHOOSE i \in at : \A j \in at : i <= j]

\* C1: wrapping an Error again, from any call site, returns the very same
\* instance and allocates nothing; ErrorWith does the same and hands its
\* companion value through; wrapping nil yields nil; and no wrap, repeated
\* or not, ever changes the frames an Error has captured.
C1_IdempotentWrap ==
    [][/\ \A e \in held, l \in Lines :
            (IsError(heap, e) /\ ret'.arg = e /\ ErrorWrapCall(e, l))
                => (ret'.err = e /\ heap' = heap /\ ~panicked')
       /\ \A e \in held, l \in Lines, v \in Vals :
            (IsError(heap, e) /\ ret'.arg = e /\ ErrorWithCall(v, e, l))
                => (ret'.err = e /\ ret'.out = v /\ heap' = heap /\ ~panicked')
       /\ \A l \in Lines :
            (ret'.arg = Nil /\ ErrorWrapCall(Nil, l)) => (ret'.err = Nil /\ heap' = heap)
       /\ \A l \in Lines, v \in Vals :
            (ret'.arg = Nil /\ ErrorWithCall(v, Nil, l))
                => (ret'.err = Nil /\ ret'.out = v /\ heap' = heap)
       /\ \A e \in held, l \in Lines, v \in Vals :
            (ret'.arg = e /\ ErrorWithCall(v, e, l) /\ ~panicked') => ret'.out = v
       /\ \A i \in DOMAIN heap : heap'[i] = heap[i]]_vars

\* An Error made by wrapping a raw error has been wrapped again, and the
\* caller got the same instance back, its frames in place.
C1_Witness ==
    /\ ret.op \in {"ErrorWrap", "ErrorWith"}
    /\ IsError(heap, ret.arg)
    /\ heap[heap[ret.arg].err].kind = "raw"
    /\ ret.err = ret.arg
    /\ Len(Stacks(heap, ret.err)) > 1

\* C9: every Error the wrap functions construct has a non-empty Stacks(),
\* so that Stack() never fails; the frames are those of the callers, oldest
\* call first, the last one being the frame of the function that called the
\* wrap function; the frames of the wrap function and of newLogError are
\* not among them.
C9_CapturedStack ==
    [][/\ \A i \in DOMAIN heap' :
            heap'[i].kind = "log" => ~StackPanics(heap', i)
       /\ \A e \in held \cup {Nil}, l \in Lines, v \in Vals, m \in Msgs :
            ((ErrorWrapCall(e, l) \/ ErrorWithCall(v, e, l) \/ ErrorfCall(m, l))
                    /\ Len(heap') > Len(heap))
                => LET st == Stacks(heap', Len(heap'))
                       at == Append(callers, Site(l))
                   IN  /\ Len(st) > 0
                       /\ Len(st) <= Len(at)
                       /\ st = SubSeq(at, Len(at) - Len(st) + 1, Len(at))
                       /\ Stack(heap', Len(heap')) = Site(l)]_vars

\* C10: wrapping an error that is not an Error but has one down its Unwrap
\* chain returns the first Error of the chain, the same instance, without
\* capturing anything; the message and the cause of the result are those of
\* that inner Error, and the outer wrappers of err are not reachable from
\* the result.
C10_WrapFindsInner ==
    [][\A e \in held, l \in Lines, v \in Vals :
          (/\ ~IsError(heap, e)
           /\ \E x \in Range(Chain(heap, e)) : IsError(heap, x)
           /\ ret'.arg = e
           /\ (ErrorWrapCall(e, l) \/ ErrorWithCall(v, e, l)))
              => LET outer == OuterChain(heap, e)
                     inner == heap[Last(outer)].err
                 IN  /\ IsError(heap, inner)
                     /\ ret'.err = inner
                     /\ ret'.err # e
                     /\ heap' = heap
                     /\ ErrorMsg(heap', ret'.err) = ErrorMsg(heap, inner)
                     /\ Unwrap(heap', ret'.err) = Unwrap(heap, inner)
                     /\ Range(Chain(heap', ret'.err)) \cap Range(outer) = {}]_vars

\* A wrapper around an Error has been wrapped, and the caller got the inner
\* Error.
C10_Witness ==
    /\ ret.op \in {"ErrorWrap", "ErrorWith"}
    /\ ret.arg # Nil
    /\ heap[ret.arg].kind = "wrap"
    /\ IsError(heap, ret.err)
    /\ ret.err \in Range(Chain(heap, ret.arg))

(***************************************************************************)
(* Properties of construction and forking.                                 *)
(***************************************************************************)
\* The keys of a key/value list and the text of the value a key was last
\* given in it.
PairKeys(a) == {a[i].s : i \in {j \in DOMAIN a : j % 2 = 1}}

LastValue(a, k) ==
    LET at == {j \in DOMAIN a : j % 2 = 1 /\ a[j].s = k}
        j  == CHOOSE x \in at : \A y \in at : y <= x
    IN  <<SprintfV(a[j + 1])>>

\* When key k was first set: its place in the parent's fields, or, after
\* all of those, its first place in the list.
FirstSet(parent, a, k) ==
    IF \E i \in DOMAIN parent : parent[i][1] = k
    THEN CHOOSE i \in DOMAIN parent : parent[i][1] = k
    ELSE Len(parent) + (CHOOSE j \in DOMAIN a :
                            /\ j % 2 = 1 /\ a[j].s = k
                            /\ \A y \in DOMAIN a : (y % 2 = 1 /\ a[y].s = k) => j <= y)

\* m is parent overlaid with the pairs of a.
Overlaid(parent, a, m) ==
    /\ {m[i][1] : i \in DOMAIN m} = {parent[i][1] : i \in DOMAIN parent} \cup PairKeys(a)
    /\ \A i, j \in DOMAIN m : i < j => FirstSet(parent, a, m[i][1]) < FirstSet(parent, a, m[j][1])
    /\ \A i \in DOMAIN m :
          m[i][2] = IF m[i][1] \in PairKeys(a) THEN LastValue(a, m[i][1])
                    ELSE parent[CHOOSE p \in DOMAIN parent : parent[p][1] = m[i][1]][2]

\* The fields of m, each of one line, as one line: "[k]v" for each, first
\* to last.
RECURSIVE Bracketed(_)
Bracketed(m) ==
    IF m = <<>> THEN ""
    ELSE LET front == SubSeq(m, 1, Len(m) - 1)
         IN  Bracketed(front) \o (IF front = <<>> THEN "" ELSE " | ")
             \o "[" \o Last(m)[1] \o "]" \o Last(m)[2][1]

FieldsOf(i) == maps[loggers[i].values]

\* C4: no step changes the threshold, the field map or the sink of a Logger
\* that exists; NewGroup returns a new Logger with the threshold and the
\* sink of its parent and a field map of its own.
C4_ForkLeavesParent ==
    [][/\ \A i \in DOMAIN loggers :
            /\ i \in DOMAIN loggers'
            /\ loggers'[i] = loggers[i]
            /\ maps'[loggers'[i].values] = maps[loggers[i].values]
       /\ \A lg \in DOMAIN loggers, a \in ArgLists :
            (NewGroupCall(lg, a) /\ ~panicked')
                => /\ Len(loggers') = Len(loggers) + 1
                   /\ Last(loggers').level = loggers[lg].level
                   /\ Last(loggers').writer = loggers[lg].writer
                   /\ \A i \in DOMAIN loggers : Last(loggers').values # loggers[i].values]_vars

\* A logger has been forked with a pair that sets a key of the parent; the
\* child has the new value, the parent the old one.
C4_Witness ==
    /\ probe.form = "NewGroup"
    /\ Len(loggers) >= 2
    /\ FieldsOf(probe.lg) = <<<<"a", <<"1">>>>, <<"b", <<"2">>>>>>
    /\ FieldsOf(Len(loggers)) = <<<<"a", <<"3">>>>, <<"b", <<"2">>>>>>

\* C5: the fields of a logger made by NewLogger or NewGroup from an
\* even-length, string-keyed list are the parent's fields overlaid with the
\* pairs: every key once, in the order in which the keys were first set
\* along the chain, each with the value it was last given; and a record is
\* rendered with the fields in that order.
C5_FieldOrder ==
    [][/\ \A level \in Levels, w \in Writers, a \in EvenArgs :
            NewLoggerCall(level, w, a) => Overlaid(<<>>, a, maps'[Last(loggers').values])
       /\ \A lg \in DOMAIN loggers, a \in EvenArgs :
            NewGroupCall(lg, a) => Overlaid(FieldsOf(lg), a, maps'[Last(loggers').values])
       /\ \A lg \in DOMAIN loggers, level \in Levels :
            (LevelCall(lg, level, 0, <<>>, 10, TRUE) /\ probe'.wrote = 1)
                => Last(sink'[loggers[lg].writer]).global = <<Bracketed(FieldsOf(lg))>>]_vars

\* The logger made by NewLogger("a", 1, "b", 2) and forked with ("a", 3)
\* has written a record: a, with 3, comes before b, with 2.
C5_Witness ==
    /\ probe.form = "Level"
    /\ probe.wrote = 1
    /\ probe.lg > 1
    /\ FieldsOf(1) = <<<<"a", <<"1">>>>, <<"b", <<"2">>>>>>
    /\ FieldsOf(probe.lg) = <<<<"a", <<"3">>>>, <<"b", <<"2">>>>>>
    /\ Last(sink[loggers[probe.lg].writer]).global = <<"[a]3 | [b]2">>

\* C6: a call of a base logging method, of NewLogger or of NewGroup with a
\* list of odd length panics, whatever the threshold of the logger, writes
\* nothing and makes no Logger.
C6_OddArguments ==
    [][/\ \A lg \in DOMAIN loggers, level \in Levels, a \in OddArgs :
            LevelCall(lg, level, 0, a, 10, TRUE)
                => /\ panicked'
                   /\ probe'.wrote = 0
                   /\ sink'[loggers[lg].writer] = <<>>
                   /\ loggers' = loggers
       /\ \A level \in Levels, w \in Writers, a \in OddArgs :
            NewLoggerCall(level, w, a)
                => (panicked' /\ loggers' = loggers /\ maps' = maps /\ sink' = sink)
       /\ \A lg \in DOMAIN loggers, a \in OddArgs :
            NewGroupCall(lg, a)
                => (panicked' /\ loggers' = loggers /\ maps' = maps /\ sink' = sink)]_vars

\* A logger has panicked on a call of a level below its threshold.
C6_Witness ==
    /\ panicked
    /\ probe.form = "Level"
    /\ loggers[probe.lg].level > probe.level
    /\ probe.wrote = 0

(***************************************************************************)
(* Properties of emission.                                                 *)
(***************************************************************************)
LoggingForms == {"Level", "Levelf", "LevelError"}

KArgs == <<GoStr("k"), GoInt(1)>>

\* C2: a call of a level below the threshold of its logger, in any of the
\* three forms, formats nothing (no value, no format string, no message of
\* an error), resolves no call site and writes nothing.
C2_ShortCircuit ==
    (probe.form \in LoggingForms /\ loggers[probe.lg].level > probe.level)
        => (probe.nfmt = 0 /\ probe.ncaller = 0 /\ probe.wrote = 0)

\* The step is a logging call on logger lg at the given level, of which
\* the probe tells the logger and the level.
IsLoggingStep(lg, level) ==
    /\ probe'.lg = lg /\ probe'.level = level
    /\ \/ LevelCall(lg, level, 0, KArgs, 10, FALSE)
       \/ LevelfCall(lg, level, 0, GoInt(1), 10, FALSE)
       \/ \E e \in held : LevelErrorCall(lg, level, 0, e, 10, FALSE)

\* The lines the sink gets from a record: the writer ends the text with a
\* newline, so one line and one more for every newline in the text.
LinesOf(rec) == Len(rec.global) + Len(rec.local) - 1

\* A step leaves the sink as it is, unless it is a logging call of a
\* level at or above the threshold of its logger, which adds one record
\* after those already there.
OneRecordPerCall ==
    /\ \A lg \in DOMAIN loggers, level \in Levels :
          IsLoggingStep(lg, level)
              => LET w == loggers[lg].writer
                 IN  IF loggers[lg].level <= level
                     THEN /\ ~panicked'
                          /\ Len(sink'[w]) = Len(sink[w]) + 1
                          /\ SubSeq(sink'[w], 1, Len(sink[w])) = sink[w]
                          /\ Last(sink'[w]).badge = logLevelStringMap[level]
                          /\ \A x \in Writers \ {w} : sink'[x] = sink[x]
                     ELSE ~panicked' /\ sink' = sink
    /\ \/ sink' = sink
       \/ \E lg \in DOMAIN loggers, level \in Levels : IsLoggingStep(lg, level)

FrameAbove(k, l) ==
    LET user == Append(callers, Site(l))
        n    == Len(user)
    IN  IF k < 0 \/ k > n THEN NoFrame
        ELSE IF k = n THEN GoexitFrame
        ELSE user[n - k]

PosText(frame) == frame.File \o ":" \o ToString(frame.Line)

\* The step is a call of one of the three forms on logger 1 with skip k at
\* line l, the error form with an error that is not an Error; the probe
\* tells the level, the skip and the line of a call.
IsSkipStep(level, k, l) ==
    /\ probe'.level = level /\ probe'.skip = k /\ probe'.line = l
    /\ \/ LevelCall(1, level, k, KArgs, l, TRUE)
       \/ LevelfCall(1, level, k, GoInt(1), l, TRUE)
       \/ LevelErrorCall(1, level, k, 1, l, TRUE)

TraceLines(frames) == [i \in DOMAIN frames |-> "\t" \o PosText(frames[i])]

\* The text of the message of e: the messages of the errors of its chain
\* that are not Errors, outermost first, with ": " between them.
RECURSIVE JoinMsgs(_, _)
JoinMsgs(h, c) ==
    IF Len(c) = 1 THEN h[c[1]].msg ELSE h[c[1]].msg \o ": " \o JoinMsgs(h, Tail(c))

CauseText(h, e) ==
    LET NotError(x) == h[x].kind # "log" IN JoinMsgs(h, SelectSeq(Chain(h, e), NotError))

\* The record of a permitted LevelError(0, e) at line l is rendered from
\* the Error found in e, if there is one, and as a plain record if not.
ErrorRecordIsRight(e, l, rec) ==
    LET x == FirstError(heap, e)
    IN  IF x # Nil
        THEN /\ rec.pos = PosText(Last(Stacks(heap, x)))
             /\ rec.local = <<"error=" \o CauseText(heap, x) \o " stack=">>
                            \o TraceLines(Stacks(heap, x))
        ELSE /\ rec.pos = PosText(Site(l))
             /\ rec.local = <<"error=" \o CauseText(heap, e)>>

\* The frames were captured in a function that the function now executing
\* had called, directly or not, from the stack it still has.
WrappedBelow(frames) ==
    /\ Len(frames) > Len(callers) + 1
    /\ SubSeq(frames, 1, Len(callers)) = callers

\* The record as C8 claims it: that of an Error if e is one, with the frame
\* of the logging call in the trace of an error wrapped further down, and a
\* plain record if e is anything else.
ErrorRecordAsClaimed(e, l, rec) ==
    IF IsError(heap, e)
    THEN /\ rec.pos = PosText(Last(Stacks(heap, e)))
         /\ rec.local = <<"error=" \o CauseText(heap, e) \o " stack=">>
                        \o TraceLines(Stacks(heap, e))
         /\ WrappedBelow(Stacks(heap, e))
                => Stacks(heap, e)[Len(callers) + 1] = Site(l)
    ELSE /\ rec.pos = PosText(Site(l))
         /\ rec.local = <<"error=" \o CauseText(heap, e)>>

\* C8 as claimed: a permitted LevelError renders an err that is an Error
\* with the position of its primary frame and a trace of its frames, oldest
\* first, so that the trace of an error wrapped in one function and logged
\* from another holds the frame of the logging call before the frame of
\* the wrap; any other err is rendered as a plain record with one "error"
\* field, at the position of the caller.
C8_TraceHoldsLogSite ==
    [][\A e \in held, l \in Lines :
          (/\ probe'.level = LogLevelError /\ probe'.line = l
           /\ LevelErrorCall(1, LogLevelError, 0, e, l, TRUE))
              => /\ probe'.wrote = 1
                 /\ ErrorRecordAsClaimed(e, l, Last(sink'["buf"]))]_vars

\* C8 as amended: a permitted LevelError renders the first Error of the
\* Unwrap chain of err, if there is one, with the position of its primary
\* (last captured) frame, its message, and a trace of exactly the frames it
\* captured when it was made, oldest first; an error with no Error in its
\* chain is rendered as a plain record with one "error" field, at the
\* position of the caller.
C8_ErrorDispatch ==
    [][\A e \in held, l \in Lines :
          (/\ probe'.level = LogLevelError /\ probe'.line = l
           /\ LevelErrorCall(1, LogLevelError, 0, e, l, TRUE))
              => /\ probe'.wrote = 1
                 /\ ErrorRecordIsRight(e, l, Last(sink'["buf"]))]_vars

\* An error wrapped in a callee has been logged, from the caller, on
\* another line than the one of the call: the record bears the position of
\* the wrap, and its trace the line of the call.
C8_Witness ==
    /\ probe.form = "LevelError"
    /\ probe.wrote = 1
    /\ \E e \in held :
          /\ IsError(heap, e)
          /\ WrappedBelow(Stacks(heap, e))
          /\ Stacks(heap, e)[Len(callers) + 1].Line # probe.line
          /\ Last(sink["buf"]).pos = PosText(Stack(heap, e))
          /\ Last(sink["buf"]).local =
                <<"error=boom stack=">> \o TraceLines(Stacks(heap, e))

====
